---- MODULE Spec2Model ----
(***************************************************************************)
(* The chunk walker of threedee (src/lib.rs): Parser3DS over a             *)
(* Cursor<&[u8]>.  The buffer is modelled byte by byte, the four walkers   *)
(* (read_main, read_editor, read_material, read_material_texture_map) as   *)
(* frames of an explicit call stack, one action per step of a walker.      *)
(*                                                                         *)
(* Offsets are u64 in the code and the length field is a u32.  They are    *)
(* kept exact as two 16-bit limbs <<hi, lo>>, since a header read at a     *)
(* misaligned offset can decode a length above 2^31.                       *)
(***************************************************************************)
EXTENDS Integers, Sequences, FiniteSets, TLC

VARIABLES
  data,          \* Cursor's inner slice: the input buffer, a sequence of bytes
  position,      \* Cursor::position(), a u64 as <<hi, lo>>
  stack,         \* call stack of walker frames, innermost last
  outcome,       \* "running" | "returned" | "panicked" | "aborted"
  error,         \* the panic: [msg, line] (line of lib.rs that panicked)
  result,        \* the Vec<Main> read_main returned
  headers_read,  \* completed read_chunk_info calls (saturating)
  seeks,         \* completed seek_to_next_chunk calls (saturating)
  seen,          \* history: did a visited chunk end past its parent, past the buffer
  input,         \* how the buffer was built: [doc, mutation]
  pending,       \* buffers still to be parsed by the caller
  baseline       \* what the previous read_main call of the caller gave

vars == <<data, position, stack, outcome, error, result, headers_read, seeks,
          seen, input, pending, baseline>>

----------------------------------------------------------------------------
(* Bounds of the model *)

\* chunks below the outermost chunk in a generated document
MaxChunks == 4
\* chunks below the outermost chunk in a document that is then corrupted
MaxCorruptChunks == 3
\* a length field is perturbed by at most this much
MaxDelta == 2
\* the counters headers_read and seeks saturate here
CounterCap == 2
\* a Vec longer than this cannot be allocated: more than any generated
\* document needs, so that only a walker that loops reaches it
MaxItems == MaxChunks + 1

----------------------------------------------------------------------------
(* chunks.rs: the chunk identifiers lib.rs imports.  The values are those  *)
(* of the 3DS format; the walkers rely only on their being distinct.       *)

MAIN3DS == 19789
MAIN_VERSION == 2
MAIN_EDITOR == 15677
MAIN_KEYFRAMES == 45056
EDIT_VERSION == 15678
EDIT_MATERIAL == 45055
MATERIAL_NAME == 40960
MATERIAL_TEXTURE_MAP == 41472
MATERIAL_TEXTURE_MAP_NAME == 41728

\* an identifier no walker names (an object mesh block)
UNKNOWN_ID == 4 * 4096

\* bytes of a chunk header: a u16 and a u32
HeaderSize == 6

----------------------------------------------------------------------------
(* u64 arithmetic on two limbs *)

Limb == 256 * 256

U64(n) == <<n \div Limb, n % Limb>>

U64Add(a, b) == <<a[1] + b[1] + ((a[2] + b[2]) \div Limb), (a[2] + b[2]) % Limb>>

U64Lt(a, b) == a[1] < b[1] \/ (a[1] = b[1] /\ a[2] < b[2])

U64Le(a, b) == ~U64Lt(b, a)

----------------------------------------------------------------------------
(* ChunkInfo *)

NoChunk == [id |-> -1, offset |-> U64(0), next_chunk_offset |-> U64(0)]

\* ChunkInfo::get_end
get_end(info) == U64Add(info.offset, info.next_chunk_offset)

----------------------------------------------------------------------------
(* Cursor<&[u8]> *)

\* bytes a read can still deliver: the slice from min(position, len)
Remaining(pos) ==
  IF pos[1] > 0 \/ pos[2] >= Len(data) THEN 0 ELSE Len(data) - pos[2]

\* read_u16::<LittleEndian> at byte index p (counted from 0)
read_u16(p) == data[p + 1] + 256 * data[p + 2]

\* read_u32::<LittleEndian> at byte index p, as a u64
read_u32(p) == <<data[p + 3] + 256 * data[p + 4], data[p + 1] + 256 * data[p + 2]>>

\* a read_chunk_info that takes a short read for zeroes instead of failing
read_chunk_info_lenient(pos) ==
  IF Remaining(pos) >= HeaderSize
  THEN [eof |-> FALSE,
        info |-> [id |-> read_u16(pos[2]), offset |-> pos,
                  next_chunk_offset |-> read_u32(pos[2] + 2)],
        position |-> U64Add(pos, U64(HeaderSize))]
  ELSE [eof |-> FALSE,
        info |-> [id |-> 0, offset |-> pos, next_chunk_offset |-> U64(0)],
        position |-> pos]

\* Parser3DS::read_chunk_info: the two reads and their unwraps
read_chunk_info(pos) ==
  IF Remaining(pos) >= HeaderSize
  THEN [eof |-> FALSE,
        info |-> [id |-> read_u16(pos[2]), offset |-> pos,
                  next_chunk_offset |-> read_u32(pos[2] + 2)],
        position |-> U64Add(pos, U64(HeaderSize))]
  ELSE [eof |-> TRUE,
        info |-> NoChunk,
        position |-> IF Remaining(pos) >= 2 THEN U64Add(pos, U64(2)) ELSE pos]

\* a seek that adds the length to the cursor's position, not to the chunk's start
seek_target_from_cursor(info) == U64Add(position, info.next_chunk_offset)

\* Parser3DS::seek_to_next_chunk: SeekFrom::Start never fails on a Cursor
seek_target(info) == U64Add(info.offset, info.next_chunk_offset)

\* BufRead::read_until(b'\0', ..): up to and including the first 0, or to the end
read_until(pos) ==
  LET n == Remaining(pos)
      p == pos[2]
      nuls == {i \in (p + 1)..(p + n) : data[i] = 0}
      last == IF nuls = {} THEN p + n
              ELSE CHOOSE i \in nuls : \A j \in nuls : i <= j
      bytes == IF n = 0 THEN <<>> ELSE SubSeq(data, p + 1, last)
  IN [bytes |-> bytes, position |-> U64Add(pos, U64(Len(bytes)))]

\* Vec::pop, its result dropped
pop(bytes) == IF bytes = <<>> THEN <<>> ELSE SubSeq(bytes, 1, Len(bytes) - 1)

IsCont(b) == b >= 128 /\ b <= 191

\* String::from_utf8 succeeds
RECURSIVE from_utf8_ok(_)
from_utf8_ok(s) ==
  IF s = <<>> THEN TRUE
  ELSE LET b == s[1]
           n == Len(s)
       IN IF b < 128 THEN from_utf8_ok(Tail(s))
          ELSE IF b >= 194 /\ b <= 223
            THEN n >= 2 /\ IsCont(s[2]) /\ from_utf8_ok(SubSeq(s, 3, n))
          ELSE IF b >= 224 /\ b <= 239
            THEN /\ n >= 3 /\ IsCont(s[2]) /\ IsCont(s[3])
                 /\ (b = 224 => s[2] >= 160)
                 /\ (b = 237 => s[2] <= 159)
                 /\ from_utf8_ok(SubSeq(s, 4, n))
          ELSE IF b >= 240 /\ b <= 244
            THEN /\ n >= 4 /\ IsCont(s[2]) /\ IsCont(s[3]) /\ IsCont(s[4])
                 /\ (b = 240 => s[2] >= 144)
                 /\ (b = 244 => s[2] <= 143)
                 /\ from_utf8_ok(SubSeq(s, 5, n))
          ELSE FALSE

----------------------------------------------------------------------------
(* The parse tree: Main, Editor, Material, MaterialTextureMap *)

Group(tag, items) == [tag |-> tag, items |-> items]

Name(bytes) == [tag |-> "Name", name |-> bytes]

\* the variant a walker's result is wrapped in by its caller
VariantOf(fn) ==
  CASE fn = "read_editor" -> "Editor"
    [] fn = "read_material" -> "Material"
    [] fn = "read_material_texture_map" -> "TextureMap"

----------------------------------------------------------------------------
(* Walker frames *)

\* a walker entered over the chunk `info`: items is empty, the loop is next
Frame(fn, info) ==
  [fn |-> fn, info |-> info, items |-> <<>>, pc |-> "while", child |-> NoChunk]

\* read_main before it has read the outermost header
MainFrame ==
  [fn |-> "read_main", info |-> NoChunk, items |-> <<>>, pc |-> "root_header",
   child |-> NoChunk]

Top == stack[Len(stack)]

SetTop(f) == [stack EXCEPT ![Len(stack)] = f]

Running == outcome = "running" /\ stack # <<>>

At(fn, pc) == Running /\ Top.fn = fn /\ Top.pc = pc

Bump(c) == IF c < CounterCap THEN c + 1 ELSE c

NoError == [msg |-> "", line |-> 0]

\* the history after the header of `info` was read inside the chunk `parent`
Observe(info, parent) ==
  [past_parent |-> seen.past_parent
                     \/ (parent # NoChunk /\ U64Lt(get_end(parent), get_end(info))),
   past_buffer |-> seen.past_buffer \/ U64Lt(U64(Len(data)), get_end(info))]

Step(pos, stk, out, err, res, hr, sk, sn) ==
  /\ position' = pos
  /\ seen' = sn
  /\ stack' = stk
  /\ outcome' = out
  /\ error' = err
  /\ result' = res
  /\ headers_read' = hr
  /\ seeks' = sk
  /\ UNCHANGED <<data, input, pending, baseline>>

\* the walker goes on
Go(pos, stk) == Step(pos, stk, "running", error, result, headers_read, seeks, seen)

\* unwrap() on an Err, or unimplemented!(): the stack unwinds, nothing is returned
Panic(pos, msg, line) ==
  Step(pos, <<>>, "panicked", [msg |-> msg, line |-> line], result,
       headers_read, seeks, seen)

\* Vec::push on a vector that cannot grow
Abort(pos, line) ==
  Step(pos, <<>>, "aborted", [msg |-> "memory allocation failed", line |-> line],
       result, headers_read, seeks, seen)

CanPush(items) == Len(items) < MaxItems

\* a root check that lets any outermost chunk through
root_any(id) == TRUE

\* read_main: the outer match arm taken for the outermost chunk
root_supported(id) == id = MAIN3DS

----------------------------------------------------------------------------
(* Actions: read_main's prologue *)

\* read_main: let info = self.read_chunk_info()
ReadRootHeader ==
  /\ At("read_main", "root_header")
  /\ LET r == read_chunk_info(position)
     IN IF r.eof
        THEN Panic(r.position, "UnexpectedEof", 98)
        ELSE Step(r.position,
                  SetTop([Top EXCEPT !.info = r.info, !.pc = "root_match"]),
                  "running", error, result, Bump(headers_read), seeks,
                  Observe(r.info, NoChunk))

\* read_main: match info.id { MAIN3DS => .., _ => unimplemented!() }
MatchRoot ==
  /\ At("read_main", "root_match")
  /\ IF root_supported(Top.info.id)
     THEN Go(position, SetTop([Top EXCEPT !.pc = "while"]))
     ELSE Panic(position, "not implemented", 123)

----------------------------------------------------------------------------
(* Actions: the loop shared by the four walkers *)

\* while self.data.position() < info.get_end()
WhileCond ==
  /\ Running
  /\ Top.pc = "while"
  /\ IF U64Lt(position, get_end(Top.info))
     THEN Go(position, SetTop([Top EXCEPT !.pc = "child_header"]))
     ELSE Go(position, SetTop([Top EXCEPT !.pc = "return"]))

\* let info = self.read_chunk_info()  (the child's header)
ReadChildHeader ==
  /\ Running
  /\ Top.pc = "child_header"
  /\ LET r == read_chunk_info(position)
         line == CASE Top.fn = "read_main" -> 103
                   [] Top.fn = "read_editor" -> 132
                   [] Top.fn = "read_material" -> 158
                   [] Top.fn = "read_material_texture_map" -> 190
     IN IF r.eof
        THEN Panic(r.position, "UnexpectedEof", line)
        ELSE Step(r.position,
                  SetTop([Top EXCEPT !.child = r.info, !.pc = "match"]),
                  "running", error, result, Bump(headers_read), seeks,
                  Observe(r.info, Top.info))

\* self.seek_to_next_chunk(&info), the last statement of every arm
SeekToNextChunk ==
  /\ Running
  /\ Top.pc = "seek"
  /\ Step(seek_target(Top.child),
          SetTop([Top EXCEPT !.pc = "while"]),
          "running", error, result, headers_read, Bump(seeks), seen)

\* a nested walker returns its items; the caller wraps and pushes them
Return ==
  /\ Running
  /\ Top.pc = "return"
  /\ Len(stack) > 1
  /\ LET caller == stack[Len(stack) - 1]
         item == Group(VariantOf(Top.fn), Top.items)
         line == CASE Top.fn = "read_editor" -> 112
                   [] Top.fn = "read_material" -> 142
                   [] Top.fn = "read_material_texture_map" -> 174
     IN IF CanPush(caller.items)
        THEN Go(position,
                Append(SubSeq(stack, 1, Len(stack) - 2),
                       [caller EXCEPT !.items = Append(@, item), !.pc = "seek"]))
        ELSE Abort(position, line)

\* read_main returns items
ReturnMain ==
  /\ At("read_main", "return")
  /\ Step(position, <<>>, "returned", error, Top.items, headers_read, seeks, seen)

----------------------------------------------------------------------------
(* Actions: the match of each walker *)

\* enter the nested walker `fn` over the child chunk
Call(fn) ==
  Go(position, Append(SetTop([Top EXCEPT !.pc = "call"]), Frame(fn, Top.child)))

Skip == Go(position, SetTop([Top EXCEPT !.pc = "seek"]))

\* the scalar-leaf arm: read_until, pop, from_utf8, push
ReadName(line) ==
  LET r == read_until(position)
      name == pop(r.bytes)
  IN IF ~from_utf8_ok(name)
     THEN Panic(r.position, "FromUtf8Error", line)
     ELSE IF ~CanPush(Top.items)
     THEN Abort(r.position, line + 2)
     ELSE Go(r.position,
             SetTop([Top EXCEPT !.items = Append(@, Name(name)), !.pc = "seek"]))

\* read_main: match info.id of a child of the outermost chunk
MainMatch ==
  /\ At("read_main", "match")
  /\ LET id == Top.child.id
     IN IF id = MAIN_VERSION THEN Skip
        ELSE IF id = MAIN_EDITOR THEN Call("read_editor")
        ELSE IF id = MAIN_KEYFRAMES THEN Skip
        ELSE Panic(position, "not implemented", 119)

\* read_editor: match info.id
EditorMatch ==
  /\ At("read_editor", "match")
  /\ LET id == Top.child.id
     IN IF id = EDIT_VERSION THEN Skip
        ELSE IF id = EDIT_MATERIAL THEN Call("read_material")
        ELSE Skip

\* read_material: match info.id
MaterialMatch ==
  /\ At("read_material", "match")
  /\ LET id == Top.child.id
     IN IF id = MATERIAL_NAME THEN ReadName(166)
        ELSE IF id = MATERIAL_TEXTURE_MAP THEN Call("read_material_texture_map")
        ELSE Skip

\* read_material_texture_map: match info.id
TextureMapMatch ==
  /\ At("read_material_texture_map", "match")
  /\ LET id == Top.child.id
     IN IF id = MATERIAL_TEXTURE_MAP_NAME THEN ReadName(198)
        ELSE Skip

Next ==
  \/ ReadRootHeader
  \/ MatchRoot
  \/ WhileCond
  \/ ReadChildHeader
  \/ MainMatch
  \/ EditorMatch
  \/ MaterialMatch
  \/ TextureMapMatch
  \/ SeekToNextChunk
  \/ Return
  \/ ReturnMain

----------------------------------------------------------------------------
(* Input buffers.  A document is a tree of chunks; Encode lays it out as   *)
(* read_chunk_info and the walkers read it: a little-endian u16 id, a      *)
(* little-endian u32 length that counts the header, then the body.         *)

Chunk(id, payload, kids) == [id |-> id, payload |-> payload, kids |-> kids]

LE16(n) == <<n % 256, n \div 256>>

LE32(n) == <<n % 256, (n \div 256) % 256, (n \div 65536) % 256, n \div 16777216>>

RECURSIVE Encode(_), EncodeAll(_)
Encode(c) ==
  LET body == c.payload \o EncodeAll(c.kids)
  IN LE16(c.id) \o LE32(HeaderSize + Len(body)) \o body

EncodeAll(cs) == IF cs = <<>> THEN <<>> ELSE Encode(Head(cs)) \o EncodeAll(Tail(cs))

\* offsets (from 0) of every chunk header in Encode(c) laid out at `base`
RECURSIVE HeaderOffsets(_, _), HeaderOffsetsAll(_, _)
HeaderOffsets(c, base) ==
  {base} \cup HeaderOffsetsAll(c.kids, base + HeaderSize + Len(c.payload))

HeaderOffsetsAll(cs, base) ==
  IF cs = <<>> THEN {}
  ELSE HeaderOffsets(Head(cs), base)
         \cup HeaderOffsetsAll(Tail(cs), base + Len(Encode(Head(cs))))

RECURSIVE Size(_), SizeAll(_)
Size(c) == 1 + SizeAll(c.kids)

SizeAll(cs) == IF cs = <<>> THEN 0 ELSE Size(Head(cs)) + SizeAll(Tail(cs))

\* a null-terminated string chunk
NameChunk(id, text) == Chunk(id, text \o <<0>>, <<>>)

UnknownChunk == Chunk(UNKNOWN_ID, <<7>>, <<>>)

\* the strings of generated name chunks: "W", and a byte that is not UTF-8
Texts == {<<87>>, <<255>>}

\* nesting levels: 1 under the outermost chunk, 2 editor, 3 material, 4 texture map
Leaves(level) ==
  CASE level = 1 -> {Chunk(MAIN_VERSION, <<3>>, <<>>), Chunk(MAIN_KEYFRAMES, <<>>, <<>>),
                     UnknownChunk}
    [] level = 2 -> {Chunk(EDIT_VERSION, <<3>>, <<>>), UnknownChunk}
    [] level = 3 -> {NameChunk(MATERIAL_NAME, t) : t \in Texts} \cup {UnknownChunk}
    [] level = 4 -> {NameChunk(MATERIAL_TEXTURE_MAP_NAME, t) : t \in Texts}
                      \cup {UnknownChunk}

GroupId(level) ==
  CASE level = 1 -> MAIN_EDITOR
    [] level = 2 -> EDIT_MATERIAL
    [] level = 3 -> MATERIAL_TEXTURE_MAP

\* sequences of sibling chunks at `level` with at most n chunks in all
RECURSIVE Forests(_, _)
Forests(level, n) ==
  IF n = 0 THEN {<<>>}
  ELSE LET groups == IF level < 4
                     THEN {Chunk(GroupId(level), <<>>, k) : k \in Forests(level + 1, n - 1)}
                     ELSE {}
           heads == Leaves(level) \cup groups
       IN {<<>>} \cup
          UNION {{<<c>> \o rest : rest \in Forests(level, n - Size(c))} : c \in heads}

\* the outermost chunk is the container root, or an editor chunk in its place
RootIds == {MAIN3DS, MAIN_EDITOR}

\* root > editor > material > [name "Wood", texture map > [name "wood.bmp"]]
WoodDoc ==
  Chunk(MAIN3DS, <<>>,
    <<Chunk(MAIN_EDITOR, <<>>,
        <<Chunk(EDIT_MATERIAL, <<>>,
            <<NameChunk(MATERIAL_NAME, <<87, 111, 111, 100>>),
              Chunk(MATERIAL_TEXTURE_MAP, <<>>,
                <<NameChunk(MATERIAL_TEXTURE_MAP_NAME,
                            <<119, 111, 111, 100, 46, 98, 109, 112>>)>>)>>)>>)>>)

Docs ==
  {Chunk(MAIN3DS, <<>>, k) : k \in Forests(1, MaxChunks)}
    \cup {Chunk(id, <<>>, k) : id \in RootIds, k \in Forests(1, MaxCorruptChunks)}
    \cup {WoodDoc}

\* the values a chunk's length field is changed to: below a header, or nearby
LengthValues(len) ==
  (0..(HeaderSize - 1)) \cup {v \in (len - MaxDelta)..(len + MaxDelta) : v >= 0 /\ v # len}

NoMutation == [kind |-> "none", at |-> 0, value |-> 0]

Mutations(doc) ==
  LET buf == Encode(doc)
  IN IF SizeAll(doc.kids) > MaxCorruptChunks THEN {NoMutation}
     ELSE {NoMutation}
       \cup {[kind |-> "truncate", at |-> t, value |-> 0] : t \in 0..(Len(buf) - 1)}
       \cup UNION {{[kind |-> "length", at |-> o, value |-> v] :
                       v \in LengthValues(buf[o + 3])} : o \in HeaderOffsets(doc, 0)}

Mutate(buf, m) ==
  CASE m.kind = "none" -> buf
    [] m.kind = "truncate" -> SubSeq(buf, 1, m.at)
    [] m.kind = "length" -> [buf EXCEPT ![m.at + 3] = m.value]

----------------------------------------------------------------------------
(* Specifications *)

NoTree == <<>>

\* Parser3DS::new over Cursor::new(buf), then the call of read_main
Start(buf) ==
  /\ data = buf
  /\ position = U64(0)
  /\ stack = <<MainFrame>>
  /\ outcome = "running"
  /\ error = NoError
  /\ result = NoTree
  /\ headers_read = 0
  /\ seeks = 0
  /\ seen = [past_parent |-> FALSE, past_buffer |-> FALSE]

Init ==
  \E doc \in Docs :
    \E m \in Mutations(doc) :
      /\ input = [doc |-> doc, mutation |-> m]
      /\ Start(Mutate(Encode(doc), m))
      /\ pending = <<>>
      /\ baseline = [outcome |-> "none", result |-> NoTree]

Spec == Init /\ [][Next]_vars

\* the walker is sequential code: while it can step, it steps
FairSpec == Spec /\ WF_vars(Next)

----------------------------------------------------------------------------
(* A caller that parses one buffer, then a second one, and compares: the   *)
(* second buffer is the first with one chunk inserted among the children   *)
(* of a material chunk, the enclosing lengths adjusted by Encode.          *)

NameIds == {MATERIAL_NAME, MATERIAL_TEXTURE_MAP_NAME}

\* every name chunk of the document holds valid UTF-8
RECURSIVE TextsOk(_)
TextsOk(c) ==
  /\ (c.id \in NameIds => from_utf8_ok(c.payload))
  /\ \A i \in 1..Len(c.kids) : TextsOk(c.kids[i])

WellFormedDocs == {d \in Docs : d.id = MAIN3DS /\ TextsOk(d)}

InsertAt(cs, i, c) == SubSeq(cs, 1, i) \o <<c>> \o SubSeq(cs, i + 1, Len(cs))

\* the sibling sequences got from `cs` (at `level`) by inserting c among the
\* children of one material chunk
RECURSIVE InsertInMaterial(_, _, _)
InsertInMaterial(level, cs, c) ==
  IF level = 3 THEN {InsertAt(cs, i, c) : i \in 0..Len(cs)}
  ELSE UNION {{[cs EXCEPT ![i] = [@ EXCEPT !.kids = k]] :
                  k \in InsertInMaterial(level + 1, cs[i].kids, c)} :
              i \in {j \in 1..Len(cs) : cs[j].id = GroupId(level)}}

\* chunks the material walker does not name, one of them with a name chunk inside
InsertedChunks ==
  {Chunk(UNKNOWN_ID, <<>>, <<>>),
   Chunk(UNKNOWN_ID, Encode(NameChunk(MATERIAL_NAME, <<88>>)), <<>>),
   Chunk(MATERIAL_TEXTURE_MAP_NAME, <<89, 0>>, <<>>)}

InitSkip ==
  \E doc \in WellFormedDocs :
    \E c \in InsertedChunks :
      \E k \in InsertInMaterial(1, doc.kids, c) :
        /\ input = [doc |-> doc, mutation |-> NoMutation]
        /\ Start(Encode(doc))
        /\ pending = <<Encode([doc EXCEPT !.kids = k])>>
        /\ baseline = [outcome |-> "none", result |-> NoTree]

\* the caller keeps what read_main gave and parses its next buffer
ParseNext ==
  /\ outcome # "running"
  /\ pending # <<>>
  /\ baseline' = [outcome |-> outcome, result |-> result]
  /\ data' = Head(pending)
  /\ pending' = Tail(pending)
  /\ position' = U64(0)
  /\ stack' = <<MainFrame>>
  /\ outcome' = "running"
  /\ error' = NoError
  /\ result' = NoTree
  /\ headers_read' = 0
  /\ seeks' = 0
  /\ seen' = [past_parent |-> FALSE, past_buffer |-> FALSE]
  /\ UNCHANGED input

NextSkip == Next \/ ParseNext

SpecSkip == InitSkip /\ [][NextSkip]_vars

----------------------------------------------------------------------------
(* Vocabulary of the properties *)

Finished == outcome # "running"

\* the byte offset of a u64 that lies inside the buffer, else the buffer's length
Clip(a) == IF a[1] > 0 \/ a[2] > Len(data) THEN Len(data) ELSE a[2]

\* the child IDs the dispatch table names at each level (version, editor and
\* keyframes under the root; version and material under an editor; name and
\* texture map under a material; name under a texture map)
Recognized(fn, id) ==
  CASE fn = "read_main" -> id \in {MAIN_VERSION, MAIN_EDITOR, MAIN_KEYFRAMES}
    [] fn = "read_editor" -> id \in {EDIT_VERSION, EDIT_MATERIAL}
    [] fn = "read_material" -> id \in {MATERIAL_NAME, MATERIAL_TEXTURE_MAP}
    [] fn = "read_material_texture_map" -> id = MATERIAL_TEXTURE_MAP_NAME

\* the walker is about to dispatch on a scalar-leaf (name) child
AtNameArm ==
  /\ Running
  /\ Top.pc = "match"
  /\ \/ Top.fn = "read_material" /\ Top.child.id = MATERIAL_NAME
     \/ Top.fn = "read_material_texture_map" /\ Top.child.id = MATERIAL_TEXTURE_MAP_NAME

\* no 0x00 among the payload bytes of `info` that lie before its declared end
NoTerminator(info) ==
  \A i \in (info.offset[2] + HeaderSize + 1)..Clip(get_end(info)) : data[i] # 0

\* the tree the documented dispatch table gives for the children `cs` at `level`
RECURSIVE Expected(_, _)
Expected(level, cs) ==
  IF cs = <<>> THEN <<>>
  ELSE LET c == Head(cs)
           rest == Expected(level, Tail(cs))
           text == SubSeq(c.payload, 1, Len(c.payload) - 1)
       IN CASE level = 1 /\ c.id = MAIN_EDITOR ->
                 <<Group("Editor", Expected(2, c.kids))>> \o rest
            [] level = 2 /\ c.id = EDIT_MATERIAL ->
                 <<Group("Material", Expected(3, c.kids))>> \o rest
            [] level = 3 /\ c.id = MATERIAL_TEXTURE_MAP ->
                 <<Group("TextureMap", Expected(4, c.kids))>> \o rest
            [] level = 3 /\ c.id = MATERIAL_NAME -> <<Name(text)>> \o rest
            [] level = 4 /\ c.id = MATERIAL_TEXTURE_MAP_NAME -> <<Name(text)>> \o rest
            [] OTHER -> rest

\* the buffer is a well-formed document, as encoded
WellFormedInput ==
  /\ input.mutation.kind = "none"
  /\ input.doc \in WellFormedDocs
  /\ data = Encode(input.doc)

\* no child of the outermost chunk has an ID the root walker does not name
RootChildrenRecognized ==
  \A i \in 1..Len(input.doc.kids) : Recognized("read_main", input.doc.kids[i].id)

----------------------------------------------------------------------------
(* C1 *)

\* C1: in every walker, once the handling of a child chunk has completed and
\* the walker is back at its loop, the cursor is at the child's start offset
\* plus its length field, whatever the arm consumed.
C1_CursorAtChildEnd ==
  (Running /\ Top.pc \in {"while", "child_header", "return"} /\ Top.child # NoChunk)
    => position = U64Add(Top.child.offset, Top.child.next_chunk_offset)

\* the material walker is back at its loop after a texture-map child was walked
C1_Witness ==
  /\ Running
  /\ Top.fn = "read_material"
  /\ Top.pc = "while"
  /\ Top.child.id = MATERIAL_TEXTURE_MAP
  /\ Top.items # <<>>
  /\ Top.items[Len(Top.items)].tag = "TextureMap"
  /\ Top.items[Len(Top.items)].items # <<>>

----------------------------------------------------------------------------
(* C3 *)

\* C3: in each of the four walkers a child whose ID is not recognized at that
\* level is skipped: the parse goes on, nothing is appended, and the walker
\* proceeds to the seek to the child's end.
C3_UnknownChildSkipped ==
  [][(Running /\ Top.pc = "match" /\ ~Recognized(Top.fn, Top.child.id))
       => (outcome' = "running" /\ stack' = SetTop([Top EXCEPT !.pc = "seek"]))]_vars

----------------------------------------------------------------------------
(* C4 *)

\* C4: for a well-formed buffer read_main returns the tree with one entry per
\* recognized group or name child at each level, in buffer order, inert and
\* unknown children contributing nothing.
C4_TreeOfWellFormed ==
  (WellFormedInput /\ Finished)
    => (outcome = "returned" /\ result = Expected(1, input.doc.kids))

\* the same, for documents whose root-level children are all recognized
C4_TreeOfWellFormedRecognizedRoot ==
  (WellFormedInput /\ RootChildrenRecognized /\ Finished)
    => (outcome = "returned" /\ result = Expected(1, input.doc.kids))

\* the Wood example of the round trip
WoodExample ==
  (input.doc = WoodDoc /\ Finished)
    => /\ outcome = "returned"
       /\ result = <<Group("Editor", <<Group("Material",
                      <<Name(<<87, 111, 111, 100>>),
                        Group("TextureMap",
                          <<Name(<<119, 111, 111, 100, 46, 98, 109, 112>>)>>)>>)>>)>>

----------------------------------------------------------------------------
(* C5 *)

\* C5: a name chunk with no 0x00 in its payload before its declared end makes
\* the parse fail, and the string read never moves the cursor past the
\* chunk's end.
C5_UnterminatedNameFails ==
  [][/\ (AtNameArm /\ NoTerminator(Top.child)) => outcome' = "panicked"
     /\ (AtNameArm /\ outcome' = "running") => U64Le(position', get_end(Top.child))]_vars

----------------------------------------------------------------------------
(* C6 *)

\* C6: seek_to_next_chunk fails when the chunk's end offset exceeds the buffer
\* length, and read_main returns no tree once a visited chunk declared an end
\* beyond the buffer.
C6_SeekPastBufferFails ==
  [][/\ (Running /\ Top.pc = "seek"
           /\ U64Lt(U64(Len(data)),
                    U64Add(Top.child.offset, Top.child.next_chunk_offset)))
          => outcome' = "panicked"
     /\ outcome' = "returned" => ~seen'.past_buffer]_vars

----------------------------------------------------------------------------
(* C7 *)

\* C7: a header read attempted with fewer than 6 bytes between the cursor and
\* the end of the buffer fails the parse with UnexpectedEof, and no tree is
\* returned.
C7_ShortHeaderFails ==
  [][(Running /\ Top.pc \in {"root_header", "child_header"}
        /\ (position[1] > 0 \/ Len(data) - position[2] < 6))
       => /\ outcome' = "panicked"
          /\ error'.msg = "UnexpectedEof"
          /\ stack' = <<>>
          /\ result' = NoTree]_vars

----------------------------------------------------------------------------
(* C8 *)

\* C8: in every parse that returns a tree, every visited chunk ended at or
\* before its parent's end (a chunk ending past its parent is rejected).
C8_ChildWithinParent == outcome = "returned" => ~seen.past_parent

----------------------------------------------------------------------------
(* C9 *)

\* C9: for every buffer, read_main eventually completes with a tree or fails;
\* no walker loops forever.
C9_Terminates == <>Finished

----------------------------------------------------------------------------
(* C10 *)

\* C10: when the first chunk's ID is not MAIN3DS, read_main fails with the
\* unsupported-root panic after reading that one header: no child header is
\* read, no seek is done, no walker loop is entered, no tree is returned.
C10_RootMismatchFails ==
  (Len(data) >= 6 /\ data[1] + 256 * data[2] # 19789)
    => /\ headers_read <= 1
       /\ seeks = 0
       /\ outcome # "returned"
       /\ result = NoTree
       /\ Running => (Len(stack) = 1 /\ Top.pc \in {"root_header", "root_match"})
       /\ Finished => /\ outcome = "panicked"
                      /\ error = [msg |-> "not implemented", line |-> 123]
                      /\ headers_read = 1
                      /\ position = <<0, 6>>

\* the parse of a buffer that starts with an editor chunk has failed
C10_Witness ==
  /\ Len(data) >= 6
  /\ data[1] + 256 * data[2] = MAIN_EDITOR
  /\ Len(input.doc.kids) > 0
  /\ outcome = "panicked"
  /\ error.line = 123

----------------------------------------------------------------------------
(* C7, its case *)

\* a child header read failed with the cursor already past the end of the buffer
C7_Witness ==
  /\ outcome = "panicked"
  /\ error.msg = "UnexpectedEof"
  /\ error.line # 98
  /\ U64Lt(U64(Len(data)), position)

----------------------------------------------------------------------------
(* C2 *)

\* C2: a well-formed buffer and the same buffer with an unrecognized chunk
\* inserted among a material's children give the same tree, and the parse of
\* the buffer with the inserted chunk does not abort.
C2_InsertedChunkIgnored ==
  (pending = <<>> /\ baseline.outcome # "none" /\ Finished)
    => (outcome = "returned" /\ result = baseline.result)

\* the same, for documents whose root-level children are all recognized
C2_InsertedChunkIgnoredRecognizedRoot ==
  (pending = <<>> /\ baseline.outcome # "none" /\ Finished /\ RootChildrenRecognized)
    => (outcome = "returned" /\ baseline.outcome = "returned"
          /\ result = baseline.result)

====
